---------------------------- MODULE Spec2Model ----------------------------
(***************************************************************************)
(* gh-summary: a command-line report of a developer's GitHub activity,     *)
(* built on the external `gh` tool.                                        *)
(*                                                                         *)
(* Text is modelled as a sequence of string pieces (its value is their     *)
(* concatenation).  Text that the program splits, trims or sorts (URLs,    *)
(* the login, labels that are padded) is written one character per piece,  *)
(* so that those operations are computed character by character.           *)
(***************************************************************************)
EXTENDS Integers, Sequences, FiniteSets

(* ------------------------------ bounds -------------------------------- *)

\* Longest URL, in '/'-separated segments, given to extract_repo.
MaxSegs == 6
\* Longest URL list given to print_items.
MaxUrls == 3
\* Longest URL list a query returns in a run of main.
MaxRunUrls == 1
\* Longest short URL list given to search_prs_detailed.
MaxPrs == 4
\* Longest metrics list given to print_metrics_summary, and its largest field.
MaxMetrics == 2
MaxLines == 2

(* ------------------------- program constants -------------------------- *)

\* "--limit=1000": the result cap every search passes to gh.
Limit == 1000
\* "{:19}": the width the category label is padded to.
LabelWidth == 19
\* "=".repeat(50): the width of the header and footer rule.
RuleWidth == 50
\* 7_i32.days(): the default lookback window.
DefaultDays == 7

(* ------------------------------- text --------------------------------- *)

\* The ASCII characters of codes 32..95 in code order: AsciiLow[k] has code
\* 31 + k.
AsciiLow ==
    << " ", "!", "\"", "#", "$", "%", "&", "'", "(", ")", "*", "+", ",", "-",
       ".", "/", "0", "1", "2", "3", "4", "5", "6", "7", "8", "9", ":", ";",
       "<", "=", ">", "?", "@", "A", "B", "C", "D", "E", "F", "G", "H", "I",
       "J", "K", "L", "M", "N", "O", "P", "Q", "R", "S", "T", "U", "V", "W",
       "X", "Y", "Z", "[", "\\", "]", "^", "_" >>

\* The ASCII characters of codes 97..126: AsciiHigh[k] has code 96 + k.
AsciiHigh ==
    << "a", "b", "c", "d", "e", "f", "g", "h", "i", "j", "k", "l", "m", "n",
       "o", "p", "q", "r", "s", "t", "u", "v", "w", "x", "y", "z", "{", "|",
       "}", "~" >>

\* The byte value of a character.
Ord(c) ==
    IF c = "\n" THEN 10
    ELSE IF \E k \in DOMAIN AsciiLow : AsciiLow[k] = c
         THEN 31 + (CHOOSE k \in DOMAIN AsciiLow : AsciiLow[k] = c)
         ELSE 96 + (CHOOSE k \in DOMAIN AsciiHigh : AsciiHigh[k] = c)

\* Option<T>: None is the empty sequence, Some(x) the one-element sequence.
None == << >>
Some(x) == << x >>

\* Result<T, String>.
Ok(v) == [ok |-> TRUE, val |-> v, err |-> << >>]
Err(e) == [ok |-> FALSE, val |-> << >>, err |-> e]

RECURSIVE SplitFrom(_, _, _)
\* str::split(sep) continued: `cur` is the segment being read.
SplitFrom(s, sep, cur) ==
    IF s = << >> THEN << cur >>
    ELSE IF Head(s) = sep
         THEN << cur >> \o SplitFrom(Tail(s), sep, << >>)
         ELSE SplitFrom(Tail(s), sep, Append(cur, Head(s)))

\* url.split('/').collect(): the segments between separators; a text with
\* k separators has k + 1 segments, empty ones included.
Split(s, sep) == SplitFrom(s, sep, << >>)

RECURSIVE Join(_, _)
\* The segments joined by `sep`.
Join(segs, sep) ==
    IF Len(segs) = 0 THEN << >>
    ELSE IF Len(segs) = 1 THEN segs[1]
    ELSE segs[1] \o << sep >> \o Join(Tail(segs), sep)

IsWhitespace(c) == c \in {" ", "\n", "\t", "\r"}

RECURSIVE TrimStart(_)
TrimStart(s) ==
    IF s # << >> /\ IsWhitespace(Head(s)) THEN TrimStart(Tail(s)) ELSE s

RECURSIVE TrimEnd(_)
TrimEnd(s) ==
    IF s # << >> /\ IsWhitespace(s[Len(s)])
    THEN TrimEnd(SubSeq(s, 1, Len(s) - 1))
    ELSE s

\* str::trim.
Trim(s) == TrimEnd(TrimStart(s))

RECURSIVE Digits(_)
\* The decimal digits of n >= 0.
Digits(n) ==
    IF n < 10 THEN << AsciiLow[17 + n] >>
    ELSE Digits(n \div 10) \o << AsciiLow[17 + (n % 10)] >>

\* i32::to_string / usize::to_string.
ToString(n) == IF n < 0 THEN << "-" >> \o Digits(-n) ELSE Digits(n)

\* str::repeat.
Repeat(c, n) == [k \in 1..n |-> c]

\* "{:w}": left-aligned, padded with spaces to w characters.
PadTo(s, w) == IF Len(s) >= w THEN s ELSE s \o Repeat(" ", w - Len(s))

RECURSIVE StrLess(_, _)
\* The order of String: byte-wise lexicographic.
StrLess(a, b) ==
    IF b = << >> THEN FALSE
    ELSE IF a = << >> THEN TRUE
    ELSE IF Head(a) = Head(b) THEN StrLess(Tail(a), Tail(b))
    ELSE Ord(Head(a)) < Ord(Head(b))

\* `as i32` of a usize below 2^32: the low 32 bits, read as two's complement.
AsI32(n) ==
    IF n > 2147483647 THEN ((n - 2147483647) - 1) - 2147483647 - 1 ELSE n

\* i32 addition, wrapping as in a release build (a debug build panics on
\* overflow instead); written so that no intermediate value leaves 32 bits.
AddI32(a, b) ==
    IF b > 0 /\ a > 2147483647 - b
    THEN ((a - 2147483647) - 1) + ((b - 2147483647) - 1)
    ELSE IF b < 0 /\ a < (-2147483647 - 1) - b
         THEN ((a + 2147483647) + 1) + ((b + 2147483647) + 1)
         ELSE a + b

\* i32 subtraction, wrapping likewise.
SubI32(a, b) ==
    IF b < 0 /\ a > 2147483647 + b
    THEN ((a - 2147483647) - 1) - ((b + 2147483647) + 1)
    ELSE IF b > 0 /\ a < (-2147483647 - 1) + b
         THEN ((a + 2147483647) + 1) - ((b - 2147483647) - 1)
         ELSE a - b

(* --------------------------- extract_repo ----------------------------- *)

\* "github.com": the hostname extract_repo expects.
Host == << "g", "i", "t", "h", "u", "b", ".", "c", "o", "m" >>

\* As ExtractRepo, with the scheme checked as well.
ExtractRepoHttpsOnly(url) ==
    LET parts == Split(url, "/")
    IN  IF Len(parts) >= 5 /\ parts[3] = Host
           /\ parts[1] = << "h", "t", "t", "p", "s", ":" >> /\ parts[2] = << >>
        THEN Some(parts[4] \o << "/" >> \o parts[5])
        ELSE None

\* extract_repo: parts[2], [3], [4] of the code are parts[3], [4], [5] here
\* (sequences are 1-based).
ExtractRepo(url) ==
    LET parts == Split(url, "/")
    IN  IF Len(parts) >= 5 /\ parts[3] = Host
        THEN Some(parts[4] \o << "/" >> \o parts[5])
        ELSE None

(* ------------------------------ output -------------------------------- *)

RECURSIVE FilterMapRepos(_)
\* urls.iter().filter_map(|url| extract_repo(url)): the keys of the URLs
\* that have one, in order.
FilterMapRepos(urls) ==
    IF urls = << >> THEN << >>
    ELSE ExtractRepo(Head(urls)) \o FilterMapRepos(Tail(urls))

RECURSIVE CollectHashSet(_)
\* .collect::<HashSet<_>>(): the items inserted one by one.
CollectHashSet(items) ==
    IF items = << >> THEN {}
    ELSE CollectHashSet(SubSeq(items, 1, Len(items) - 1))
             \cup { items[Len(items)] }

\* As RepoCount, counting every key without collecting them into a set.
RepoCountNoDedup(urls) == Len(FilterMapRepos(urls))

\* repo_count of print_items.
RepoCount(urls) == Cardinality(CollectHashSet(FilterMapRepos(urls)))

RECURSIVE InsertSorted(_, _)
\* x placed after the items of `sorted` that are not greater than it.
InsertSorted(x, sorted) ==
    IF sorted = << >> THEN << x >>
    ELSE IF StrLess(x, Head(sorted)) THEN << x >> \o sorted
    ELSE << Head(sorted) >> \o InsertSorted(x, Tail(sorted))

RECURSIVE SortedFrom(_, _)
SortedFrom(urls, acc) ==
    IF urls = << >> THEN acc
    ELSE SortedFrom(Tail(urls), InsertSorted(Head(urls), acc))

\* As SortUrls, with the sort left out.
SortUrlsNoSort(urls) == urls

\* sorted_urls.sort(): a stable sort by the order of String.
SortUrls(urls) == SortedFrom(urls, << >>)

\* The single line of the compact mode.
CompactLine(label, total, repo_count) ==
    PadTo(label, LabelWidth) \o ToString(total) \o << " across " >>
        \o ToString(repo_count) \o << " " >>
        \o (IF repo_count = 1 THEN << "repository" >> ELSE << "repositories" >>)

\* The first line of the verbose mode.
VerboseHead(label, total) == PadTo(label, LabelWidth) \o ToString(total)

\* A URL line of the verbose mode.
UrlLine(url) == << "  - " >> \o url

\* print_items: the lines it writes to standard output.
PrintItems(label, urls, verbose) ==
    LET repo_count == RepoCount(urls)
    IN  IF verbose
        THEN << VerboseHead(label, Len(urls)) >>
                 \o (IF urls # << >>
                     THEN LET sorted_urls == SortUrls(urls)
                          IN  [k \in DOMAIN sorted_urls |-> UrlLine(sorted_urls[k])]
                     ELSE << >>)
        ELSE << CompactLine(label, Len(urls), repo_count) >>

RECURSIVE SumI32(_)
\* iter().sum::<i32>(): the fold of wrapping addition, which is associative,
\* grouped by halves to keep the evaluation shallow.
SumI32(ns) ==
    IF ns = << >> THEN 0
    ELSE IF Len(ns) = 1 THEN AddI32(0, ns[1])
    ELSE LET h == Len(ns) \div 2
         IN  AddI32(SumI32(SubSeq(ns, 1, h)), SumI32(SubSeq(ns, h + 1, Len(ns))))

TotalAdditions(metrics) == SumI32([k \in DOMAIN metrics |-> metrics[k].additions])
TotalDeletions(metrics) == SumI32([k \in DOMAIN metrics |-> metrics[k].deletions])
TotalFiles(metrics) == SumI32([k \in DOMAIN metrics |-> metrics[k].changed_files])

\* print_code_metrics: the line it writes to standard output.
PrintCodeMetrics(label, metrics) ==
    << PadTo(label, LabelWidth) \o << "+", " " >> \o ToString(TotalAdditions(metrics))
         \o << "  ", "-", " " >> \o ToString(TotalDeletions(metrics))
         \o << "  ", "files:", " " >> \o ToString(TotalFiles(metrics)) >>

\* The net-contribution line of a positive net.
NetPositiveLine(net_lines) ==
    << "Net contribution:    ", "+", " " >> \o ToString(net_lines)

\* The net-contribution line of a net that is not positive.
NetCleanupLine(net_lines) ==
    << "Net contribution:    " >> \o ToString(net_lines)
        \o << " (cleanup/refactoring)" >>

\* As NetLine, with the boundary 0 on the positive side.
NetLineZeroPositive(net_lines) ==
    IF net_lines >= 0 THEN NetPositiveLine(net_lines) ELSE NetCleanupLine(net_lines)

\* The net-contribution line: `if net_lines > 0 { .. } else { .. }`.
NetLine(net_lines) ==
    IF net_lines > 0 THEN NetPositiveLine(net_lines) ELSE NetCleanupLine(net_lines)

\* print_metrics_summary (main holds the same statements inline): the lines
\* it writes to standard output.
PrintMetricsSummary(metrics) ==
    LET total_additions == TotalAdditions(metrics)
        total_deletions == TotalDeletions(metrics)
        total_files == TotalFiles(metrics)
        net_lines == SubI32(total_additions, total_deletions)
    IN  << << "\n", "Code Metrics Summary" >>,
           << "Total lines added:   " >> \o ToString(total_additions),
           << "Total lines deleted: " >> \o ToString(total_deletions),
           << "Total files changed: " >> \o ToString(total_files),
           NetLine(net_lines) >>

(* --------------------------- the gh tool ------------------------------- *)

(***************************************************************************)
(* What one invocation of gh does, as Command::output() reports it:        *)
(*   spawn   "not_found" (io::ErrorKind::NotFound), "io_error" (any other  *)
(*           io::Error, io_err its text) or "exited";                      *)
(*   success whether the exit status is success;                           *)
(*   stdout  the captured output: its text, and json, what serde decodes   *)
(*           from that text as Items: None when it is not a JSON array of   *)
(*           objects with a string url, else Some list of the urls;        *)
(*   stderr  the captured error text.                                      *)
(***************************************************************************)
Outcome(spawn, io_err, success, text, json, stderr) ==
    [spawn |-> spawn, io_err |-> io_err, success |-> success,
     stdout |-> [text |-> text, json |-> json], stderr |-> stderr]

NotFoundOutcome == Outcome("not_found", << >>, FALSE, << >>, None, << >>)
IoErrorOutcome ==
    Outcome("io_error", << "Permission denied (os error 13)" >>, FALSE,
            << >>, None, << >>)
FailedOutcome(stderr) == Outcome("exited", << >>, FALSE, << >>, None, stderr)
TextOutcome(text) == Outcome("exited", << >>, TRUE, text, None, << >>)
MalformedOutcome == Outcome("exited", << >>, TRUE, << "{" >>, None, << >>)
JsonOutcome(urls) ==
    Outcome("exited", << >>, TRUE, << "[..]" >>, Some(urls), << >>)

NotFoundMessage ==
    << "GitHub CLI (gh) not found. Please install it from https://cli.github.com/ and make sure it's in your PATH." >>

\* As SpawnErrorMessage, without a message of its own for NotFound.
SpawnErrorMessageGeneric(o) ==
    << "Failed to execute gh command: " >> \o o.io_err

\* The closure of map_err: the message of an io::Error.
SpawnErrorMessage(o) ==
    IF o.spawn = "not_found" THEN NotFoundMessage
    ELSE << "Failed to execute gh command: " >> \o o.io_err

\* The result of run_gh_command when the one invocation it makes does `o`.
GhResult(o) ==
    IF o.spawn # "exited" THEN Err(SpawnErrorMessage(o))
    ELSE IF ~o.success THEN Err(<< "gh command failed: " >> \o o.stderr)
    ELSE Ok(o.stdout)

\* As RunGhCommand, invoking gh a second time after a failure.
RunGhCommandRetry(args, o) ==
    [spawned |-> IF GhResult(o).ok THEN << args >> ELSE << args, args >>,
     result |-> GhResult(o)]

\* run_gh_command: the invocations of gh it makes (their argument lists) and
\* what it returns.
RunGhCommand(args, o) == [spawned |-> << args >>, result |-> GhResult(o)]

(* ---------------------------- the queries ------------------------------ *)

UserArgs == << << "api" >>, << "user" >>, << "--jq" >>, << ".login" >> >>

\* The argument list of search_prs, search_issues, get_pr_reviews and
\* get_comments.
SearchArgs(kind, who, username, filter, since) ==
    << << "search" >>, << kind >>, << who >> \o username, << filter >>,
       << ">=" >> \o since, << "--json=url" >>, << "--limit=1000" >> >>

\* get_current_user.
GetCurrentUser(o) ==
    LET r == RunGhCommand(UserArgs, o)
    IN  [spawned |-> r.spawned,
         result |-> IF r.result.ok THEN Ok(Trim(r.result.val.text)) ELSE r.result]

\* serde_json::from_str::<Items>(&output) and into_urls, after the `?`.
ParseUrls(r) ==
    [spawned |-> r.spawned,
     result |-> IF ~r.result.ok THEN r.result
                ELSE IF r.result.val.json = None
                     THEN Err(<< "Failed to parse JSON: ", "expected value at line 1 column 1" >>)
                     ELSE Ok(r.result.val.json[1])]

\* search_prs.
SearchPrs(username, filter, since, o) ==
    ParseUrls(RunGhCommand(SearchArgs("prs", "--author=", username, filter, since), o))

\* search_issues.
SearchIssues(username, filter, since, o) ==
    ParseUrls(RunGhCommand(SearchArgs("issues", "--author=", username, filter, since), o))

\* get_pr_reviews.
GetPrReviews(username, since, o) ==
    ParseUrls(RunGhCommand(SearchArgs("prs", "--reviewed-by=", username, "--updated", since), o))

\* get_comments.
GetComments(username, since, o) ==
    ParseUrls(RunGhCommand(SearchArgs("issues", "--commenter=", username, "--created", since), o))

\* The %Y-%m-%d text of the day n days before now (symbolic: the clock is
\* not modelled).
DaysAgo(n) == << "today-" >> \o ToString(n)

\* As MockMetrics, with the deletions falling with the index.
MockMetricsFalling(i) ==
    [additions |-> AsI32(50 + i * 23),
     deletions |-> AsI32(20 - i * 7),
     changed_files |-> AsI32(3 + (i % 5))]

\* mock_metrics of the i-th URL (0-based) in search_prs_detailed.
MockMetrics(i) ==
    [additions |-> AsI32(50 + i * 23),
     deletions |-> AsI32(20 + i * 7),
     changed_files |-> AsI32(3 + (i % 5))]

\* search_prs_detailed: an entry (url, date, metrics) per URL of search_prs.
SearchPrsDetailed(username, filter, since, o) ==
    LET basic_prs == SearchPrs(username, filter, since, o)
    IN  IF ~basic_prs.result.ok THEN basic_prs
        ELSE [spawned |-> basic_prs.spawned,
              result |-> Ok([k \in DOMAIN basic_prs.result.val |->
                               [url |-> basic_prs.result.val[k],
                                date |-> DaysAgo(AsI32(k - 1)),
                                metrics |-> MockMetrics(k - 1)]])]

(* ------------------------------- state --------------------------------- *)

VARIABLES
    pc,          \* where main is: the next thing it does
    args,        \* Args: [verbose, since, metrics]
    since_date,  \* the lower bound of every search
    username,    \* the login get_current_user returned
    pr_metrics,  \* Option<Vec<CodeMetrics>> of main
    spawned,     \* every invocation of gh so far: [args, outcome]
    calls,       \* every query call so far: [fn, result]
    out,         \* the lines written to standard output
    err,         \* the lines written to standard error
    exit_code,   \* None while the process runs, then Some status
    input,       \* a function applied on its own: its name and arguments
    output       \* None, then Some of what the function returned or printed

mainVars == << pc, args, since_date, username, pr_metrics, spawned, calls,
               out, err, exit_code >>
vars == << pc, args, since_date, username, pr_metrics, spawned, calls,
           out, err, exit_code, input, output >>

\* No run of main: a function is applied on its own.
NoMain ==
    /\ pc = "none"
    /\ args = [verbose |-> FALSE, since |-> None, metrics |-> FALSE]
    /\ since_date = << >>
    /\ username = << >>
    /\ pr_metrics = None
    /\ spawned = << >>
    /\ calls = << >>
    /\ out = << >>
    /\ err = << >>
    /\ exit_code = None

\* The sequences over S of length lo..hi.
SeqsOf(S, lo, hi) == UNION { [1..n -> S] : n \in lo..hi }

(* ----------------------- extract_repo on its own ----------------------- *)

Https == << "h", "t", "t", "p", "s", ":" >>
Http == << "h", "t", "t", "p", ":" >>

\* The segments URLs are made of: none of them holds a '/'.
SegPool == { << >>, Https, Http, Host, << "o" >>, << "r" >> }

InitExtractRepo ==
    /\ NoMain
    /\ \E segs \in SeqsOf(SegPool, 1, MaxSegs) :
           input = [fn |-> "extract_repo", segs |-> segs, url |-> Join(segs, "/")]
    /\ output = None

ApplyExtractRepo ==
    /\ input.fn = "extract_repo"
    /\ output = None
    /\ output' = Some(ExtractRepo(input.url))
    /\ UNCHANGED << mainVars, input >>

NextExtractRepo == ApplyExtractRepo

SpecExtractRepo == InitExtractRepo /\ [][NextExtractRepo]_vars

\* The URL is of the shape https://github.com/<owner>/<repo>/...: read
\* generously, with nothing required after <repo>.
IsGithubRepoShape(segs) ==
    /\ Len(segs) >= 5
    /\ segs[1] = Https
    /\ segs[2] = << >>
    /\ segs[3] = Host

\* C4, as stated: extract_repo returns "<owner>/<repo>" for every URL of the
\* shape https://github.com/<owner>/<repo>/..., and None for every URL of any
\* other shape.
C4_AsStated ==
    (input.fn = "extract_repo" /\ output # None) =>
        output[1] = IF IsGithubRepoShape(input.segs)
                    THEN Some(input.segs[4] \o << "/" >> \o input.segs[5])
                    ELSE None

\* C4, amended: extract_repo returns "<4th segment>/<5th segment>" for every
\* URL that splits on '/' into at least five segments of which the third is
\* github.com, whatever its first two segments are (so for every URL
\* https://github.com/<owner>/<repo>/...), and None for every other URL: one
\* of fewer than five segments, or whose third segment is not github.com.
C4_ExtractRepo ==
    (input.fn = "extract_repo" /\ output # None) =>
        /\ output[1] = IF Len(input.segs) >= 5 /\ input.segs[3] = Host
                       THEN Some(input.segs[4] \o << "/" >> \o input.segs[5])
                       ELSE None
        /\ IsGithubRepoShape(input.segs) => output[1] # None

\* extract_repo has returned o/r for https://github.com/o/r/<more>.
C4_Witness ==
    /\ input.fn = "extract_repo"
    /\ IsGithubRepoShape(input.segs)
    /\ Len(input.segs) >= 6
    /\ output = Some(Some(<< "o", "/", "r" >>))

(* ------------------------ print_items on its own ----------------------- *)

PrsOpenedLabel == << "P", "R", "s", " ", "o", "p", "e", "n", "e", "d", ":" >>

GithubUrl(owner, repo, kind, number) ==
    Join(<< Https, << >>, Host, owner, repo, kind, number >>, "/")

Pull == << "p", "u", "l", "l" >>
Issues == << "i", "s", "s", "u", "e", "s" >>

\* Two URLs of one repository, one of another, one with too few segments
\* and one of another host.
UrlPool ==
    { GithubUrl(<< "o" >>, << "r" >>, Pull, << "2" >>),
      GithubUrl(<< "o" >>, << "r" >>, Pull, << "1", "0" >>),
      GithubUrl(<< "o" >>, << "s" >>, Issues, << "1" >>),
      Join(<< Https, << >>, Host, << "o" >> >>, "/"),
      Join(<< Https, << >>, << "g", "h", ".", "i", "o" >>, << "o" >>, << "r" >>,
              Pull, << "1" >> >>, "/") }

InitPrintItems ==
    /\ NoMain
    /\ \E urls \in SeqsOf(UrlPool, 0, MaxUrls), verbose \in BOOLEAN :
           input = [fn |-> "print_items", label |-> PrsOpenedLabel,
                    urls |-> urls, verbose |-> verbose]
    /\ output = None

ApplyPrintItems ==
    /\ input.fn = "print_items"
    /\ output = None
    /\ output' = Some(PrintItems(input.label, input.urls, input.verbose))
    /\ UNCHANGED << mainVars, input >>

NextPrintItems == ApplyPrintItems

SpecPrintItems == InitPrintItems /\ [][NextPrintItems]_vars

\* The distinct keys extract_repo gives for the URLs of a list.
DistinctRepos(urls) == { ExtractRepo(urls[k]) : k \in DOMAIN urls } \ { None }

\* The total and the repository count print_items reports for a list: the
\* compact line states both, the verbose head the total.
Reports(lines, label, total, repos, verbose) ==
    IF verbose
    THEN lines[1] = VerboseHead(label, total)
    ELSE lines = << CompactLine(label, total, repos) >>

\* C5: the repository count print_items reports is the number of distinct
\* non-empty results of extract_repo over the list and the total is the
\* length of the list, so the count never exceeds the total; a URL with no
\* extractable repository added to the list raises the total by one and
\* leaves the repository count as it was.
C5_RepoCount ==
    (input.fn = "print_items" /\ output # None) =>
        LET urls == input.urls
            repos == Cardinality(DistinctRepos(urls))
        IN  /\ Reports(output[1], input.label, Len(urls), repos, input.verbose)
            /\ repos <= Len(urls)
            /\ \A u \in UrlPool :
                   ExtractRepo(u) = None =>
                       Reports(PrintItems(input.label, Append(urls, u), input.verbose),
                               input.label, Len(urls) + 1, repos, input.verbose)

\* The compact line has been printed for a list that holds a duplicate
\* repository and a URL without one: 3 items across 1 repository.
C5_Witness ==
    /\ input.fn = "print_items"
    /\ ~input.verbose
    /\ Len(input.urls) = 3
    /\ Cardinality(DistinctRepos(input.urls)) = 1
    /\ \E k \in DOMAIN input.urls : ExtractRepo(input.urls[k]) = None
    /\ output = Some(<< CompactLine(input.label, 3, 1) >>)

\* The rearrangements of a list.
Permutations(s) ==
    { [k \in DOMAIN s |-> s[f[k]]] :
        f \in { g \in [DOMAIN s -> DOMAIN s] : \A i, j \in DOMAIN s : g[i] = g[j] => i = j } }

\* How often x occurs in s.
Count(s, x) == Cardinality({ k \in DOMAIN s : s[k] = x })

\* The URL of the k-th URL line of a verbose listing.
ListedUrl(lines, k) == Tail(lines[k + 1])

\* C6: print_items prints the same lines for every permutation of a list; in
\* verbose mode these are a head and one line per input URL, duplicates kept,
\* in lexicographically non-decreasing order, and in compact mode a single
\* line.
C6_OrderIndependent ==
    (input.fn = "print_items" /\ output # None) =>
        LET urls == input.urls
            lines == output[1]
        IN  /\ \A p \in Permutations(urls) :
                   PrintItems(input.label, p, input.verbose) = lines
            /\ input.verbose =>
                   /\ Len(lines) = 1 + Len(urls)
                   /\ \A k \in DOMAIN urls : lines[k + 1] = UrlLine(ListedUrl(lines, k))
                   /\ \A i, j \in DOMAIN urls :
                          i < j => ~StrLess(ListedUrl(lines, j), ListedUrl(lines, i))
                   /\ \A u \in UrlPool :
                          Count([k \in DOMAIN urls |-> ListedUrl(lines, k)], u)
                              = Count(urls, u)
            /\ ~input.verbose => Len(lines) = 1

\* A verbose listing has been printed for a list that was not sorted and
\* holds a URL twice.
C6_Witness ==
    /\ input.fn = "print_items"
    /\ input.verbose
    /\ output # None
    /\ Len(input.urls) = 3
    /\ \E i, j \in DOMAIN input.urls : i < j /\ input.urls[i] = input.urls[j]
    /\ \E i, j \in DOMAIN input.urls : i < j /\ StrLess(input.urls[j], input.urls[i])

(* ------------------- print_metrics_summary on its own ------------------ *)

\* The metrics of the first n URLs of search_prs_detailed.
MockMetricsList(n) == [k \in 1..n |-> MockMetrics(k - 1)]

SmallMetrics ==
    [additions : 0..MaxLines, deletions : 0..MaxLines, changed_files : 0..1]

InitMetricsSummary ==
    /\ NoMain
    /\ \E metrics \in SeqsOf(SmallMetrics, 0, MaxMetrics) \cup { MockMetricsList(Limit) } :
           input = [fn |-> "print_metrics_summary", metrics |-> metrics]
    /\ output = None

ApplyMetricsSummary ==
    /\ input.fn = "print_metrics_summary"
    /\ output = None
    /\ output' = Some(PrintMetricsSummary(input.metrics))
    /\ UNCHANGED << mainVars, input >>

NextMetricsSummary == ApplyMetricsSummary

SpecMetricsSummary == InitMetricsSummary /\ [][NextMetricsSummary]_vars

RECURSIVE Sum(_)
\* The sum of a sequence of integers.
Sum(ns) ==
    IF ns = << >> THEN 0
    ELSE IF Len(ns) = 1 THEN ns[1]
    ELSE LET h == Len(ns) \div 2
         IN  Sum(SubSeq(ns, 1, h)) + Sum(SubSeq(ns, h + 1, Len(ns)))

\* A - D of C7: the sum of the additions less the sum of the deletions.
NetOf(metrics) ==
    Sum([k \in DOMAIN metrics |-> metrics[k].additions])
        - Sum([k \in DOMAIN metrics |-> metrics[k].deletions])

\* The line is the positive form: "+" and the number.
IsPositiveForm(line, n) ==
    line = << "Net contribution:    ", "+", " " >> \o ToString(n)

\* The line is the form annotated "(cleanup/refactoring)".
IsCleanupForm(line, n) ==
    line = << "Net contribution:    " >> \o ToString(n) \o << " (cleanup/refactoring)" >>

\* C7: the net-contribution line of the metrics summary, its last line, is
\* the positive form ("+" and A - D) if and only if A - D > 0 and is otherwise
\* the form annotated "(cleanup/refactoring)"; A - D = 0 takes the latter.
C7_NetSign ==
    (input.fn = "print_metrics_summary" /\ output # None) =>
        LET net == NetOf(input.metrics)
            line == output[1][Len(output[1])]
        IN  /\ IsPositiveForm(line, net) <=> net > 0
            /\ IsCleanupForm(line, net) <=> net <= 0
            /\ net = 0 => IsCleanupForm(line, 0)

\* The summary has been printed for entries whose additions equal their
\* deletions: the net-contribution line is the cleanup form of 0.
C7_Witness ==
    /\ input.fn = "print_metrics_summary"
    /\ input.metrics # << >>
    /\ Sum([k \in DOMAIN input.metrics |-> input.metrics[k].additions]) > 0
    /\ NetOf(input.metrics) = 0
    /\ output # None
    /\ IsCleanupForm(output[1][Len(output[1])], 0)

(* -------------------- search_prs_detailed on its own ------------------- *)

Login == << "a", "l" >>
ExplicitSince == << "2024-01-01" >>

\* What a failing gh writes to its standard error.
StderrTexts == { << "HTTP 401: Bad credentials" >>, << "HTTP 403: rate limit exceeded" >> }

\* The ways an invocation of gh fails.
FailingOutcomes ==
    { NotFoundOutcome, IoErrorOutcome } \cup { FailedOutcome(e) : e \in StderrTexts }

PullUrl(number) == GithubUrl(<< "o" >>, << "r" >>, Pull, number)

PrPool == { PullUrl(<< "1" >>), PullUrl(<< "2" >>), GithubUrl(<< "o" >>, << "s" >>, Pull, << "1" >>) }

\* As many URLs as the result cap allows.
CappedList == [k \in 1..Limit |-> PullUrl(ToString(k))]

InitSearchPrsDetailed ==
    /\ NoMain
    /\ \E o \in FailingOutcomes \cup { MalformedOutcome }
                  \cup { JsonOutcome(urls) :
                           urls \in SeqsOf(PrPool, 0, MaxPrs) \cup { CappedList } } :
           input = [fn |-> "search_prs_detailed", username |-> Login,
                    filter |-> "--created", since |-> ExplicitSince, outcome |-> o]
    /\ output = None

ApplySearchPrsDetailed ==
    /\ input.fn = "search_prs_detailed"
    /\ output = None
    /\ output' = Some(SearchPrsDetailed(input.username, input.filter, input.since,
                                        input.outcome))
    /\ UNCHANGED << mainVars, input >>

NextSearchPrsDetailed == ApplySearchPrsDetailed

SpecSearchPrsDetailed == InitSearchPrsDetailed /\ [][NextSearchPrsDetailed]_vars

\* C10: when search_prs succeeds with n URLs, search_prs_detailed returns n
\* entries, the i-th (0-based) with the i-th URL and the metrics
\* (50 + 23 i, 20 + 7 i, 3 + (i mod 5)), none of them negative, for every i up
\* to the cap of 1000 results; when search_prs fails, it returns that error
\* and no entries.
C10_Detailed ==
    (input.fn = "search_prs_detailed" /\ output # None) =>
        LET basic == SearchPrs(input.username, input.filter, input.since,
                               input.outcome).result
            got == output[1].result
        IN  /\ basic.ok =>
                   /\ got.ok
                   /\ Len(got.val) = Len(basic.val)
                   /\ \A i \in 0..(Len(basic.val) - 1) :
                          /\ got.val[i + 1].url = basic.val[i + 1]
                          /\ got.val[i + 1].metrics.additions = 50 + 23 * i
                          /\ got.val[i + 1].metrics.deletions = 20 + 7 * i
                          /\ got.val[i + 1].metrics.changed_files = 3 + (i % 5)
                          /\ got.val[i + 1].metrics.additions >= 0
                          /\ got.val[i + 1].metrics.deletions >= 0
                          /\ got.val[i + 1].metrics.changed_files >= 0
            /\ ~basic.ok => got = basic /\ got.val = << >>

\* search_prs_detailed has returned an entry for each of 1000 URLs.
C10_Witness ==
    /\ input.fn = "search_prs_detailed"
    /\ input.outcome.stdout.json = Some(CappedList)
    /\ output # None
    /\ output[1].result.ok
    /\ Len(output[1].result.val) = Limit
    /\ output[1].result.val[Limit].metrics.changed_files = 7

(* ---------------------- run_gh_command on its own ---------------------- *)

\* The argument lists the program passes to gh.
ArgLists ==
    { UserArgs,
      SearchArgs("prs", "--author=", Login, "--created", ExplicitSince),
      SearchArgs("prs", "--author=", Login, "--closed", ExplicitSince),
      SearchArgs("issues", "--author=", Login, "--created", ExplicitSince),
      SearchArgs("issues", "--author=", Login, "--closed", ExplicitSince),
      SearchArgs("prs", "--reviewed-by=", Login, "--updated", ExplicitSince),
      SearchArgs("issues", "--commenter=", Login, "--created", ExplicitSince) }

\* What gh prints for `api user --jq .login`.
LoginTexts == { << "a", "l", "\n" >> }

\* The URLs of the lists a query returns in a run of main.
RunPool == { PullUrl(<< "1" >>), GithubUrl(<< "o" >>, << "s" >>, Pull, << "1" >>) }

\* What an invocation of gh for a search may do.
QueryOutcomes ==
    FailingOutcomes \cup { MalformedOutcome }
        \cup { JsonOutcome(urls) : urls \in SeqsOf(RunPool, 0, MaxRunUrls) }

\* What an invocation of gh for the login may do.
IdentityOutcomes == FailingOutcomes \cup { TextOutcome(t) : t \in LoginTexts }

InitRunGhCommand ==
    /\ NoMain
    /\ \E a \in ArgLists, o \in QueryOutcomes \cup IdentityOutcomes :
           input = [fn |-> "run_gh_command", args |-> a, outcome |-> o]
    /\ output = None

ApplyRunGhCommand ==
    /\ input.fn = "run_gh_command"
    /\ output = None
    /\ output' = Some(RunGhCommand(input.args, input.outcome))
    /\ UNCHANGED << mainVars, input >>

NextRunGhCommand == ApplyRunGhCommand

SpecRunGhCommand == InitRunGhCommand /\ [][NextRunGhCommand]_vars

\* The result is the tool-not-found class.
IsNotFoundResult(r) == r = Err(NotFoundMessage)

\* The result is the non-zero-exit class: its message wraps the stderr.
IsFailedResult(r, o) == r = Err(<< "gh command failed: " >> \o o.stderr)

\* The result is the success class: the captured stdout.
IsSuccessResult(r, o) == r = Ok(o.stdout)

\* The result is the class of a gh that could not be started for another
\* reason than its absence.
IsSpawnErrorResult(r, o) == r = Err(<< "Failed to execute gh command: " >> \o o.io_err)

\* The tool was started and exited with success status.
RanWithSuccess(o) == o.spawn = "exited" /\ o.success

\* C9, as stated: a call of run_gh_command invokes gh once and its result is
\* one of three classes, tool-not-found, non-zero exit or success; it is Ok
\* if and only if gh was started and exited with success status.
C9_AsStated ==
    (input.fn = "run_gh_command" /\ output # None) =>
        LET r == output[1].result
            o == input.outcome
        IN  /\ output[1].spawned = << input.args >>
            /\ \/ IsNotFoundResult(r)
               \/ IsFailedResult(r, o)
               \/ IsSuccessResult(r, o)
            /\ r.ok <=> RanWithSuccess(o)

\* C9, amended: a call of run_gh_command invokes gh once and its result is
\* exactly one of four classes: tool-not-found (the install-directing
\* message), another failure to start gh ("Failed to execute gh command:"
\* and the io error), non-zero exit (a message wrapping the stderr) or
\* success (the stdout); it is Ok if and only if gh was started and exited
\* with success status.
C9_RunGhCommand ==
    (input.fn = "run_gh_command" /\ output # None) =>
        LET r == output[1].result
            o == input.outcome
        IN  /\ output[1].spawned = << input.args >>
            /\ IsNotFoundResult(r) <=> o.spawn = "not_found"
            /\ IsSpawnErrorResult(r, o) <=> o.spawn = "io_error"
            /\ IsFailedResult(r, o) <=> (o.spawn = "exited" /\ ~o.success)
            /\ IsSuccessResult(r, o) <=> RanWithSuccess(o)
            /\ r.ok <=> RanWithSuccess(o)

\* run_gh_command has returned the error of a gh that exited with failure.
C9_Witness ==
    /\ input.fn = "run_gh_command"
    /\ input.outcome.spawn = "exited"
    /\ ~input.outcome.success
    /\ output # None
    /\ ~output[1].result.ok
    /\ output[1].result.err = << "gh command failed: " >> \o input.outcome.stderr

(* ------------------------------- main ---------------------------------- *)

PrsClosedLabel == 
    << "P", "R", "s", " ", "c",
       "l", "o", "s", "e", "d", ":" >>
IssuesOpenedLabel == 
    << "I", "s", "s", "u", "e", "s", " ",
       "o", "p", "e", "n", "e", "d", ":" >>
IssuesClosedLabel == 
    << "I", "s", "s", "u", "e", "s", " ",
       "c", "l", "o", "s", "e", "d", ":" >>
PrReviewsLabel == 
    << "P", "R", " ", "r", "e", "v", "i", "e",
       "w", "s", " ", "g", "i", "v", "e", "n", ":" >>
CommentsLabel == 
    << "C", "o", "m", "m", "e", "n", "t", "s",
       " ", "w", "r", "i", "t", "t", "e", "n", ":" >>
CodeChangesLabel == 
    << " ", " ", "C", "o", "d", "e", " ",
       "c", "h", "a", "n", "g", "e", "s", ":" >>

\* "=".repeat(50).
Rule == Repeat("=", RuleWidth)

\* As PrsClosedEnabled, with the block enabled.
PrsClosedSwitchedOn == TRUE

\* `if false` around the "PRs closed" block.
PrsClosedEnabled == FALSE

\* `if false` around the "Comments written" block.
CommentsEnabled == FALSE

\* The blocks of main after the header, in the order of the code.
Blocks ==
    << "prs_opened", "prs_closed", "issues_opened", "issues_closed",
       "pr_reviews", "comments", "footer" >>

\* The guard of a block.
Enabled(p) ==
    CASE p = "prs_closed" -> PrsClosedEnabled
      [] p = "comments" -> CommentsEnabled
      [] OTHER -> TRUE

\* The first block from the k-th on whose guard holds (the footer has none).
FirstEnabled(k) ==
    Blocks[CHOOSE j \in k..Len(Blocks) :
               /\ Enabled(Blocks[j])
               /\ \A i \in k..(j - 1) : ~Enabled(Blocks[i])]

\* The block main runs after block p.
After(p) == FirstEnabled(1 + (CHOOSE k \in DOMAIN Blocks : Blocks[k] = p))

\* The categories that main handles alike: query, then print the items or
\* the error.
SimpleCategories ==
    { "prs_closed", "issues_opened", "issues_closed", "pr_reviews", "comments" }

\* The query function of a category.
QueryFn(p) ==
    CASE p = "prs_closed" -> "search_prs"
      [] p = "issues_opened" -> "search_issues"
      [] p = "issues_closed" -> "search_issues"
      [] p = "pr_reviews" -> "get_pr_reviews"
      [] p = "comments" -> "get_comments"

\* The query of a category, when the invocation of gh it makes does `o`.
Query(p, user, since, o) ==
    CASE p = "prs_closed" -> SearchPrs(user, "--closed", since, o)
      [] p = "issues_opened" -> SearchIssues(user, "--created", since, o)
      [] p = "issues_closed" -> SearchIssues(user, "--closed", since, o)
      [] p = "pr_reviews" -> GetPrReviews(user, since, o)
      [] p = "comments" -> GetComments(user, since, o)

\* The label of a category's line.
Label(p) ==
    CASE p = "prs_opened" -> PrsOpenedLabel
      [] p = "prs_closed" -> PrsClosedLabel
      [] p = "issues_opened" -> IssuesOpenedLabel
      [] p = "issues_closed" -> IssuesClosedLabel
      [] p = "pr_reviews" -> PrReviewsLabel
      [] p = "comments" -> CommentsLabel

\* What a category's error line starts with.
ErrorPrefix(p) ==
    CASE p = "prs_opened" -> "Error fetching PRs opened: "
      [] p = "prs_closed" -> "Error fetching PRs closed: "
      [] p = "issues_opened" -> "Error fetching issues opened: "
      [] p = "issues_closed" -> "Error fetching issues closed: "
      [] p = "pr_reviews" -> "Error fetching PR reviews: "
      [] p = "comments" -> "Error fetching comments: "

\* The invocations of gh a call made, each with what gh did.
Invocations(r, o) == [k \in DOMAIN r.spawned |-> [args |-> r.spawned[k], outcome |-> o]]

AuthHint == << "Make sure you're authenticated with 'gh auth login'" >>

\* As IdentityFailed, without the exit: main goes on to the categories.
IdentityFailedNoExit(e) ==
    [err |-> << << "Error: " >> \o e, AuthHint >>,
     exit_code |-> None,
     pc |-> "prs_opened"]

\* As IdentityFailed, exiting with status 0.
IdentityFailedExitZero(e) ==
    [err |-> << << "Error: " >> \o e, AuthHint >>,
     exit_code |-> Some(0),
     pc |-> "exited"]

\* The Err arm of `match get_current_user()`: two lines to standard error,
\* then std::process::exit(1).
IdentityFailed(e) ==
    [err |-> << << "Error: " >> \o e, AuthHint >>,
     exit_code |-> Some(1),
     pc |-> "exited"]

\* Args::parse() and the since date: the state main is in before it
\* resolves the user.
Init ==
    /\ pc = "get_current_user"
    /\ args \in [verbose : BOOLEAN, since : { None, Some(ExplicitSince) },
                 metrics : BOOLEAN]
    /\ since_date = IF args.since = None THEN DaysAgo(DefaultDays) ELSE args.since[1]
    /\ username = << >>
    /\ pr_metrics = None
    /\ spawned = << >>
    /\ calls = << >>
    /\ out = << >>
    /\ err = << >>
    /\ exit_code = None
    /\ input = [fn |-> "main"]
    /\ output = None

\* `match get_current_user()`, and the header of the report.
ResolveUser ==
    /\ pc = "get_current_user"
    /\ \E o \in IdentityOutcomes :
           LET r == GetCurrentUser(o)
           IN  /\ spawned' = spawned \o Invocations(r, o)
               /\ calls' = Append(calls, [fn |-> "get_current_user", result |-> r.result])
               /\ IF r.result.ok
                  THEN /\ username' = r.result.val
                       /\ out' = out \o << << "GitHub User: " >> \o r.result.val \o << "\n" >>,
                                           << "GitHub Activity since " >> \o since_date \o << ":" >>,
                                           Rule >>
                       /\ pc' = FirstEnabled(1)
                       /\ UNCHANGED << err, exit_code >>
                  ELSE /\ err' = err \o IdentityFailed(r.result.err).err
                       /\ exit_code' = IdentityFailed(r.result.err).exit_code
                       /\ pc' = IdentityFailed(r.result.err).pc
                       /\ UNCHANGED << username, out >>
    /\ UNCHANGED << args, since_date, pr_metrics, input, output >>

\* The "PRs opened" block: with --metrics the detailed query, the items and
\* the code changes; without, the plain query and the items.
PrsOpened ==
    /\ pc = "prs_opened"
    /\ \E o \in QueryOutcomes :
           IF args.metrics
           THEN LET r == SearchPrsDetailed(username, "--created", since_date, o)
                    prs == r.result.val
                    urls == [k \in DOMAIN prs |-> prs[k].url]
                    metrics == [k \in DOMAIN prs |-> prs[k].metrics]
                IN  /\ spawned' = spawned \o Invocations(r, o)
                    /\ calls' = Append(calls, [fn |-> "search_prs_detailed", result |-> r.result])
                    /\ IF r.result.ok
                       THEN /\ out' = out \o PrintItems(PrsOpenedLabel, urls, args.verbose)
                                          \o (IF metrics # << >>
                                              THEN PrintCodeMetrics(CodeChangesLabel, metrics)
                                              ELSE << >>)
                            /\ pr_metrics' = Some(metrics)
                            /\ UNCHANGED err
                       ELSE /\ err' = Append(err, << "Error fetching detailed PRs: " >> \o r.result.err)
                            /\ pr_metrics' = None
                            /\ UNCHANGED out
           ELSE LET r == SearchPrs(username, "--created", since_date, o)
                IN  /\ spawned' = spawned \o Invocations(r, o)
                    /\ calls' = Append(calls, [fn |-> "search_prs", result |-> r.result])
                    /\ pr_metrics' = None
                    /\ IF r.result.ok
                       THEN /\ out' = out \o PrintItems(PrsOpenedLabel, r.result.val, args.verbose)
                            /\ UNCHANGED err
                       ELSE /\ err' = Append(err, << ErrorPrefix("prs_opened") >> \o r.result.err)
                            /\ UNCHANGED out
    /\ pc' = After("prs_opened")
    /\ UNCHANGED << args, since_date, username, exit_code, input, output >>

\* A block `match query(..) { Ok(urls) => print_items(..), Err(err) =>
\* eprintln!(..) }`.
Category(p) ==
    /\ pc = p
    /\ \E o \in QueryOutcomes :
           LET r == Query(p, username, since_date, o)
           IN  /\ spawned' = spawned \o Invocations(r, o)
               /\ calls' = Append(calls, [fn |-> QueryFn(p), result |-> r.result])
               /\ IF r.result.ok
                  THEN /\ out' = out \o PrintItems(Label(p), r.result.val, args.verbose)
                       /\ UNCHANGED err
                  ELSE /\ err' = Append(err, << ErrorPrefix(p) >> \o r.result.err)
                       /\ UNCHANGED out
    /\ pc' = After(p)
    /\ UNCHANGED << args, since_date, username, pr_metrics, exit_code, input, output >>

\* As Footer, with the summary left out when there are no entries, the way
\* the "Code changes" line is.
FooterSummaryUnlessEmpty ==
    /\ pc = "footer"
    /\ out' = out \o << Rule >>
                  \o (IF args.metrics /\ pr_metrics # None /\ pr_metrics[1] # << >>
                      THEN PrintMetricsSummary(pr_metrics[1])
                      ELSE << >>)
    /\ exit_code' = Some(0)
    /\ pc' = "exited"
    /\ UNCHANGED << args, since_date, username, pr_metrics, spawned, calls, err,
                    input, output >>

\* The footer rule, the metrics summary when it is due, and the return from
\* main.
Footer ==
    /\ pc = "footer"
    /\ out' = out \o << Rule >>
                  \o (IF args.metrics /\ pr_metrics # None
                      THEN PrintMetricsSummary(pr_metrics[1])
                      ELSE << >>)
    /\ exit_code' = Some(0)
    /\ pc' = "exited"
    /\ UNCHANGED << args, since_date, username, pr_metrics, spawned, calls, err,
                    input, output >>

Next ==
    \/ ResolveUser
    \/ PrsOpened
    \/ \E p \in SimpleCategories : Category(p)
    \/ Footer

Spec == Init /\ [][Next]_vars

\* Identity resolution has failed / succeeded.
IdentityFailure == calls # << >> /\ ~calls[1].result.ok
IdentitySuccess == calls # << >> /\ calls[1].result.ok

\* C1: once identity resolution has failed, in whatever way, the process has
\* exited with status 1, the identity query is the only invocation of gh and
\* the only query call of the run, and nothing (no header, category line or
\* footer rule) is on standard output; this holds in every state from then on.
C1_IdentityFailureStops ==
    IdentityFailure =>
        /\ pc = "exited"
        /\ exit_code = Some(1)
        /\ Len(spawned) = 1
        /\ spawned[1].args = UserArgs
        /\ Len(calls) = 1
        /\ calls[1].fn = "get_current_user"
        /\ out = << >>

\* Identity resolution has failed because gh exited with failure.
C1_Witness ==
    /\ IdentityFailure
    /\ spawned[1].outcome.spawn = "exited"
    /\ pc = "exited"

\* C2: whatever the flags and whatever each invocation of gh does, the
\* process exits with status 1 if identity resolution failed and with status
\* 0 otherwise, and has no exit status before it exits.
C2_ExitStatus ==
    /\ pc = "exited" => exit_code = IF IdentityFailure THEN Some(1) ELSE Some(0)
    /\ pc # "exited" => exit_code = None
    /\ exit_code \in { None, Some(0), Some(1) }

\* A run has exited with status 0 although every category query failed.
C2_Witness ==
    /\ pc = "exited"
    /\ exit_code = Some(0)
    /\ IdentitySuccess
    /\ Len(calls) = 5
    /\ \A k \in 2..5 : ~calls[k].result.ok
    /\ args.metrics /\ args.verbose /\ args.since # None

\* The argument lists of the invocations of gh of a complete run, in order.
RunArgs ==
    << UserArgs,
       SearchArgs("prs", "--author=", username, "--created", since_date),
       SearchArgs("issues", "--author=", username, "--created", since_date),
       SearchArgs("issues", "--author=", username, "--closed", since_date),
       SearchArgs("prs", "--reviewed-by=", username, "--updated", since_date) >>

\* The categories of a complete run, in order.
RunCategories == << "prs_opened", "issues_opened", "issues_closed", "pr_reviews" >>

\* The lines of standard output that carry the label of category p.
LabelLines(p) ==
    { k \in DOMAIN out :
        Len(out[k]) >= LabelWidth
        /\ SubSeq(out[k], 1, LabelWidth) = PadTo(Label(p), LabelWidth) }

\* The lines of standard error about category p.
ErrorLines(p) ==
    { k \in DOMAIN err :
        err[k][1] \in { ErrorPrefix(p) }
                        \cup (IF p = "prs_opened"
                              THEN { "Error fetching detailed PRs: " } ELSE {}) }

\* C3: when identity resolution has succeeded, the invocations of gh are a
\* prefix of: login, PRs opened (--created), issues opened (--created),
\* issues closed (--closed), PR reviews given, each once and in this order,
\* whichever of them fail and whatever the flags, and are all of them once the
\* process has exited; a category that failed has one line on standard error
\* and none on standard output, one that succeeded has its line on standard
\* output and none on standard error; the footer rule is printed in every
\* run that exits; the disabled categories (PRs closed, comments written) are
\* never queried.
C3_CategoriesInOrder ==
    IdentitySuccess =>
        /\ Len(spawned) = Len(calls)
        /\ Len(spawned) <= Len(RunArgs)
        /\ \A k \in DOMAIN spawned : spawned[k].args = RunArgs[k]
        /\ pc = "exited" => Len(spawned) = Len(RunArgs)
        /\ \A k \in DOMAIN calls :
               k >= 2 =>
                   /\ calls[k].fn # "get_comments"
                   /\ spawned[k].args[4] # << "--closed" >>
                          \/ spawned[k].args[2] # << "prs" >>
                   /\ spawned[k].args[3] # << "--commenter=" >> \o username
                   /\ IF calls[k].result.ok
                      THEN /\ Cardinality(LabelLines(RunCategories[k - 1])) = 1
                           /\ ErrorLines(RunCategories[k - 1]) = {}
                      ELSE /\ LabelLines(RunCategories[k - 1]) = {}
                           /\ Cardinality(ErrorLines(RunCategories[k - 1])) = 1
        /\ Len(err) = Cardinality({ k \in DOMAIN calls : ~calls[k].result.ok })
        /\ LabelLines("prs_closed") = {} /\ LabelLines("comments") = {}
        /\ Cardinality({ k \in DOMAIN out : out[k] = Rule })
               = IF pc = "exited" THEN 2 ELSE 1

\* A run has exited in which the first and the third category failed and the
\* second and the fourth were printed.
C3_Witness ==
    /\ IdentitySuccess
    /\ pc = "exited"
    /\ Len(calls) = 5
    /\ ~calls[2].result.ok
    /\ calls[3].result.ok
    /\ ~calls[4].result.ok
    /\ calls[5].result.ok
    /\ Len(err) = 2

\* C8: when gh is absent, so that the identity query fails with
\* tool-not-found, standard error holds the install-directing error once, as
\* its first line, followed by the authentication hint, and the process has
\* exited with status 1.
C8_ToolAbsent ==
    (spawned # << >> /\ spawned[1].outcome.spawn = "not_found") =>
        /\ err = << << "Error: " >> \o NotFoundMessage, AuthHint >>
        /\ Cardinality({ k \in DOMAIN err :
                           \E i \in DOMAIN err[k] : err[k][i] = NotFoundMessage[1] }) = 1
        /\ exit_code = Some(1)
        /\ pc = "exited"

\* The identity query has found no gh and the process has exited.
C8_Witness ==
    /\ spawned # << >>
    /\ spawned[1].outcome.spawn = "not_found"
    /\ calls[1].result = Err(NotFoundMessage)
    /\ exit_code = Some(1)
    /\ Len(err) = 2

\* The first line of the Code Metrics Summary block.
SummaryHead == << "\n", "Code Metrics Summary" >>

\* The lines of standard output that start a Code Metrics Summary block.
SummaryHeads == { k \in DOMAIN out : out[k] = SummaryHead }

\* The "Code changes" lines of standard output.
CodeChangesLines ==
    { k \in DOMAIN out :
        Len(out[k]) >= LabelWidth
        /\ SubSeq(out[k], 1, LabelWidth) = PadTo(CodeChangesLabel, LabelWidth) }

\* The detailed PR query of the run was made with --metrics and succeeded.
DetailedQuerySucceeded ==
    /\ args.metrics
    /\ Len(calls) >= 2
    /\ calls[2].fn = "search_prs_detailed"
    /\ calls[2].result.ok

\* C11: the Code Metrics Summary block is on standard output if and only if
\* the process has exited from a run with the metrics flag whose detailed PR
\* query succeeded, whatever the later category queries did; it is then
\* printed once, as the last five lines, right after the footer rule.  When
\* the query succeeded with no PRs the block is shown with all totals 0 and
\* the "Code changes" line is not; that line is printed exactly when the
\* query succeeded with at least one PR.
C11_SummaryShown ==
    /\ SummaryHeads # {} <=> (pc = "exited" /\ IdentitySuccess /\ DetailedQuerySucceeded)
    /\ SummaryHeads # {} =>
           /\ SummaryHeads = { Len(out) - 4 }
           /\ out[Len(out) - 5] = Rule
           /\ calls[2].result.val = << >> =>
                  /\ out[Len(out) - 3] = << "Total lines added:   ", "0" >>
                  /\ out[Len(out) - 2] = << "Total lines deleted: ", "0" >>
                  /\ out[Len(out) - 1] = << "Total files changed: ", "0" >>
                  /\ out[Len(out)] = NetCleanupLine(0)
    /\ Cardinality(CodeChangesLines)
           = IF DetailedQuerySucceeded /\ calls[2].result.val # << >> THEN 1 ELSE 0

\* A run with --metrics has exited whose detailed PR query returned no PRs
\* and whose later queries all failed: the summary is shown, with totals 0.
C11_Witness ==
    /\ pc = "exited"
    /\ DetailedQuerySucceeded
    /\ calls[2].result.val = << >>
    /\ \A k \in 3..5 : ~calls[k].result.ok
    /\ SummaryHeads # {}
    /\ CodeChangesLines = {}

====
